---- MODULE Spec2Model ----
(***************************************************************************)
(* Model of the Google Sheets ingestion code of                            *)
(* src/components/google-sheets-loader.tsx: extractSpreadsheetId,          *)
(* validateGoogleSheetConnection, fetchGoogleSheetData, getSheetNames and  *)
(* the handleLoad callback of the GoogleSheetsLoader component.            *)
(*                                                                         *)
(* Strings are sequences of one-character strings, so that regular         *)
(* expressions, trim, parseFloat, parseInt and string formatting are       *)
(* computed on characters.  JavaScript values are records with a type tag. *)
(***************************************************************************)
EXTENDS Integers, Sequences, FiniteSets, TLC

VARIABLES
    locInput,     \* SpecLocate: the argument of extractSpreadsheetId
    locResult,    \* SpecLocate: its return value, or Pending
    call,         \* SpecService: the service function called and its arguments
    callPc,       \* SpecService: position of the call
    netLog,       \* SpecService: network requests issued by the call
    response,     \* SpecService: the transport response the call received
    data,         \* SpecService: the body of that response (response.json())
    clock,        \* SpecService: what Date.now() returned for each data row
    candidates,   \* SpecService: result of rows.map(...) in fetchGoogleSheetData
    result,       \* SpecService: what the call returned or threw
    apiKey,       \* Spec: useState apiKey
    sheetId,      \* Spec: useState sheetId
    sheetRange,   \* Spec: useState sheetRange; it only goes into the URL of the
                  \*       fetch request, and the model leaves it at its default
    isLoading,    \* Spec: the flag as last set through setIsLoading
    localError,   \* Spec: useState localError
    issued,       \* Spec: number of handleLoad invocations so far
    loads,        \* Spec: per invocation, its position and its closure
    requests,     \* Spec: network requests issued, in order
    delivered     \* Spec: calls made to the props setIsLoading, onError and
                  \*       onDataLoad, in order

locVars == <<locInput, locResult>>
svcVars == <<call, callPc, netLog, response, data, clock, candidates, result>>
uiVars  == <<apiKey, sheetId, sheetRange, isLoading, localError, issued, loads, requests, delivered>>
vars    == <<locVars, svcVars, uiVars>>

----------------------------------------------------------------------------
(* JavaScript values *)

Null    == [t |-> "null", s |-> <<>>, k |-> "", v |-> 0]
Pending == [t |-> "pending", s |-> <<>>, k |-> "", v |-> 0]
Str(cs) == [t |-> "str", s |-> cs, k |-> "", v |-> 0]

\* Numbers: finite values are held in hundredths (Scale), so 2.5 is Num(250).
Scale  == 10 * 10
Num(h) == [t |-> "num", s |-> <<>>, k |-> "fin", v |-> h]
NaN    == [t |-> "num", s |-> <<>>, k |-> "nan", v |-> 0]
PosInf == [t |-> "num", s |-> <<>>, k |-> "inf", v |-> 1]
NegInf == [t |-> "num", s |-> <<>>, k |-> "inf", v |-> -1]

IsStr(x) == x.t = "str"

\* ToBoolean
Truthy(x) ==
    CASE x.t = "str" -> x.s # <<>>
      [] x.t = "num" -> (x.k = "inf") \/ (x.k = "fin" /\ x.v # 0)
      [] OTHER -> FALSE

----------------------------------------------------------------------------
(* Characters and string helpers *)

Lower == {"a","b","c","d","e","f","g","h","i","j","k","l","m",
          "n","o","p","q","r","s","t","u","v","w","x","y","z"}
Upper == {"A","B","C","D","E","F","G","H","I","J","K","L","M",
          "N","O","P","Q","R","S","T","U","V","W","X","Y","Z"}
DigitChars == <<"0","1","2","3","4","5","6","7","8","9">>
Digit == {DigitChars[i] : i \in 1..10}
DigitVal(c) == (CHOOSE i \in 1..10 : DigitChars[i] = c) - 1

\* The character class [a-zA-Z0-9-_] of the three patterns
IdChar == Lower \cup Upper \cup Digit \cup {"-", "_"}

WhiteSpace == {" "}

Includes(s, c) == \E i \in 1..Len(s) : s[i] = c

RECURSIVE TrimStart(_)
TrimStart(s) ==
    IF s # <<>> /\ Head(s) \in WhiteSpace THEN TrimStart(Tail(s)) ELSE s

RECURSIVE TrimEnd(_)
TrimEnd(s) ==
    IF s # <<>> /\ s[Len(s)] \in WhiteSpace
    THEN TrimEnd(SubSeq(s, 1, Len(s) - 1)) ELSE s

\* String.prototype.trim
Trim(s) == TrimEnd(TrimStart(s))

----------------------------------------------------------------------------
(* extractSpreadsheetId *)

\* the literal parts of the three patterns; each is followed by ([a-zA-Z0-9-_]+)
LitSpreadsheetsD ==
    <<"/","s","p","r","e","a","d","s","h","e","e","t","s","/","d","/">>
LitD  == <<"/","d","/">>
LitId == <<"i","d","=">>

patternsReordered == <<LitD, LitSpreadsheetsD, LitId>>

patterns == <<LitSpreadsheetsD, LitD, LitId>>

LitAt(s, lit, i) ==
    /\ i + Len(lit) - 1 <= Len(s)
    /\ \A j \in 1..Len(lit) : s[i + j - 1] = lit[j]

\* the greedy capture group: the longest run of IdChar starting at j
RECURSIVE CaptureRun(_, _)
CaptureRun(s, j) ==
    IF j <= Len(s) /\ s[j] \in IdChar THEN <<s[j]>> \o CaptureRun(s, j + 1) ELSE <<>>

\* input.match(pattern): scan left to right for the first position where the
\* literal is followed by at least one IdChar; the value is match[1] or Null
RECURSIVE MatchFrom(_, _, _)
MatchFrom(s, lit, i) ==
    IF i > Len(s) THEN Null
    ELSE IF LitAt(s, lit, i) /\ CaptureRun(s, i + Len(lit)) # <<>>
         THEN Str(CaptureRun(s, i + Len(lit)))
         ELSE MatchFrom(s, lit, i + 1)

Match(s, lit) == MatchFrom(s, lit, 1)

\* the for loop over patterns, from pattern number p
RECURSIVE FirstPattern(_, _)
FirstPattern(s, p) ==
    IF p > Len(patterns) THEN Null
    ELSE IF Truthy(Match(s, patterns[p])) THEN Match(s, patterns[p])
         ELSE FirstPattern(s, p + 1)

extractSpreadsheetId(s) ==
    IF ~Includes(s, "/") /\ ~Includes(s, "?")
    THEN Str(Trim(s))
    ELSE FirstPattern(s, 1)

----------------------------------------------------------------------------
(* Number parsing and formatting *)

StartsWith(s, lit) == Len(lit) <= Len(s) /\ SubSeq(s, 1, Len(lit)) = lit

RECURSIVE DigitRun(_)
DigitRun(s) ==
    IF s # <<>> /\ Head(s) \in Digit THEN <<Head(s)>> \o DigitRun(Tail(s)) ELSE <<>>

RECURSIVE DigitsValue(_)
DigitsValue(ds) ==
    IF ds = <<>> THEN 0
    ELSE DigitsValue(SubSeq(ds, 1, Len(ds) - 1)) * 10 + DigitVal(ds[Len(ds)])

\* a fraction's digits in hundredths (the inputs of the model carry at most
\* two fraction digits and no exponent part)
FractionValue(ds) ==
    CASE Len(ds) = 0 -> 0
      [] Len(ds) = 1 -> DigitVal(ds[1]) * 10
      [] OTHER -> DigitVal(ds[1]) * 10 + DigitVal(ds[2])

LitInfinity == <<"I","n","f","i","n","i","t","y">>

\* the unsigned part of parseFloat: Infinity, or digits with an optional
\* fraction, at least one digit in all
ParseUnsignedFloat(s, sign) ==
    IF StartsWith(s, LitInfinity) THEN (IF sign = 1 THEN PosInf ELSE NegInf)
    ELSE LET int  == DigitRun(s)
             rest == SubSeq(s, Len(int) + 1, Len(s))
             frac == IF rest # <<>> /\ Head(rest) = "." THEN DigitRun(Tail(rest)) ELSE <<>>
         IN  IF int = <<>> /\ frac = <<>> THEN NaN
             ELSE Num(sign * (DigitsValue(int) * Scale + FractionValue(frac)))

\* parseFloat(string): leading white space, an optional sign, the longest
\* numeric prefix; NaN when there is none
parseFloat(s) ==
    LET t == TrimStart(s)
    IN  IF t # <<>> /\ Head(t) = "-" THEN ParseUnsignedFloat(Tail(t), -1)
        ELSE IF t # <<>> /\ Head(t) = "+" THEN ParseUnsignedFloat(Tail(t), 1)
        ELSE ParseUnsignedFloat(t, 1)

\* parseInt(string, 10): leading white space, an optional sign, the longest
\* run of digits; NaN when there is none
parseInt(s) ==
    LET t    == TrimStart(s)
        neg  == t # <<>> /\ Head(t) = "-"
        body == IF t # <<>> /\ Head(t) \in {"-", "+"} THEN Tail(t) ELSE t
        ds   == DigitRun(body)
    IN  IF ds = <<>> THEN NaN
        ELSE Num((IF neg THEN -1 ELSE 1) * DigitsValue(ds) * Scale)

\* isNaN(x) for the values it is applied to: a number, or null (Number(null) = 0)
isNaN(x) == x.t = "num" /\ x.k = "nan"

\* value.replace(/[$,]/g, '')
StripCurrency(s) == SelectSeq(s, LAMBDA c : c \notin {"$", ","})

\* x > 0
GreaterThanZero(x) ==
    x.t = "num" /\ ((x.k = "fin" /\ x.v > 0) \/ (x.k = "inf" /\ x.v > 0))

\* decimal rendering of a natural number, as in a template literal
RECURSIVE NatToChars(_)
NatToChars(n) ==
    IF n < 10 THEN <<DigitChars[n + 1]>>
    ELSE NatToChars(n \div 10) \o <<DigitChars[(n % 10) + 1]>>

----------------------------------------------------------------------------
(* Error messages.  A message is the sequence of the pieces of text it is
   concatenated from; an empty piece is left out, so that two messages are
   equal exactly when their texts are. *)

Msg(text) == <<text>>
Template(prefix, text) == IF text = "" THEN <<prefix>> ELSE <<prefix, text>>

MsgInvalidId        == Msg("Invalid spreadsheet ID or URL")
MsgApiKeyRequired   == Msg("API key is required")
MsgValidateDenied   == Msg("Access denied. Check your API key and sheet permissions.")
MsgValidateNotFound == Msg("Spreadsheet not found.")
MsgFetchDenied ==
    Msg("Access denied. Make sure the sheet is publicly accessible and the API key is valid.")
MsgFetchNotFound    == Msg("Sheet not found. Check the spreadsheet ID and range.")
MsgNoData           == Msg("No data found in the specified range")
MsgHeadersOnly      == Msg("Sheet contains headers but no data rows")

----------------------------------------------------------------------------
(* Transport *)

NoResponse == [kind |-> "none", status |-> 0, statusText |-> "", message |-> <<>>]
Http(status, text) ==
    [kind |-> "http", status |-> status, statusText |-> text, message |-> <<>>]
\* fetch() rejected: a network failure, thrown as an Error with a message
NetError(m) == [kind |-> "error", status |-> 0, statusText |-> "", message |-> m]

\* response.ok
Ok(resp) == resp.kind = "http" /\ resp.status >= 200 /\ resp.status <= 299

MetadataRequest(id, key) == [endpoint |-> "metadata", id |-> id, key |-> key, range |-> <<>>]
ValuesRequest(id, key, range) ==
    [endpoint |-> "values", id |-> id, key |-> key, range |-> range]

Sheet1 == <<"S","h","e","e","t","1">>

----------------------------------------------------------------------------
(* Results of the service functions *)

NoResult ==
    [kind |-> "pending", valid |-> FALSE, error |-> <<>>, deals |-> <<>>, names |-> <<>>]
Valid ==
    [kind |-> "return", valid |-> TRUE, error |-> <<>>, deals |-> <<>>, names |-> <<>>]
Invalid(m) ==
    [kind |-> "return", valid |-> FALSE, error |-> m, deals |-> <<>>, names |-> <<>>]
Throw(m) ==
    [kind |-> "throw", valid |-> FALSE, error |-> m, deals |-> <<>>, names |-> <<>>]
ReturnDeals(ds) ==
    [kind |-> "return", valid |-> FALSE, error |-> <<>>, deals |-> ds, names |-> <<>>]
ReturnNames(ns) ==
    [kind |-> "return", valid |-> FALSE, error |-> <<>>, deals |-> <<>>, names |-> ns]

\* what a function does before its first await: it ends with a result, or it
\* issues a request and waits
Ends(r)  == [result |-> r, request |-> <<>>]
Sends(q) == [result |-> NoResult, request |-> <<q>>]

\* !apiKey || apiKey.trim() === ''
BlankKey(key) == key = <<>> \/ Trim(key) = <<>>

----------------------------------------------------------------------------
(* validateGoogleSheetConnection *)

ValidateStartKeyFirst(spreadsheetId, key) ==
    LET id == extractSpreadsheetId(spreadsheetId)
    IN  IF BlankKey(key) THEN Ends(Invalid(MsgApiKeyRequired))
        ELSE IF ~Truthy(id) THEN Ends(Invalid(MsgInvalidId))
        ELSE Sends(MetadataRequest(id.s, key))

ValidateStart(spreadsheetId, key) ==
    LET id == extractSpreadsheetId(spreadsheetId)
    IN  IF ~Truthy(id) THEN Ends(Invalid(MsgInvalidId))
        ELSE IF BlankKey(key) THEN Ends(Invalid(MsgApiKeyRequired))
        ELSE Sends(MetadataRequest(id.s, key))

\* the validator's reason for a response that is not ok
ValidateReason(resp) ==
    IF resp.status = 403 THEN MsgValidateDenied
    ELSE IF resp.status = 404 THEN MsgValidateNotFound
    ELSE Template("Connection failed: ", resp.statusText)

\* after await fetch(url), the catch clause included
ValidateOnResponse(resp) ==
    IF resp.kind = "error" THEN Invalid(resp.message)
    ELSE IF ~Ok(resp) THEN Invalid(ValidateReason(resp))
    ELSE Valid

----------------------------------------------------------------------------
(* fetchGoogleSheetData *)

FetchStart(spreadsheetId, key, range) ==
    LET id == extractSpreadsheetId(spreadsheetId)
    IN  IF ~Truthy(id) THEN Ends(Throw(MsgInvalidId))
        ELSE IF BlankKey(key) THEN Ends(Throw(MsgApiKeyRequired))
        ELSE Sends(ValuesRequest(id.s, key, range))

FetchReasonSwapped(resp) ==
    IF resp.status = 404 THEN MsgFetchDenied
    ELSE IF resp.status = 403 THEN MsgFetchNotFound
    ELSE Template("Failed to fetch data: ", resp.statusText)

\* the message thrown for a response that is not ok
FetchReason(resp) ==
    IF resp.status = 403 THEN MsgFetchDenied
    ELSE IF resp.status = 404 THEN MsgFetchNotFound
    ELSE Template("Failed to fetch data: ", resp.statusText)

\* after await fetch(url): a rejection and a response that is not ok are
\* thrown (and rethrown by the catch clause); otherwise the body is awaited
FetchOnResponse(resp) ==
    IF resp.kind = "error" THEN Throw(resp.message)
    ELSE IF ~Ok(resp) THEN Throw(FetchReason(resp))
    ELSE NoResult

\* Response bodies: the JSON value, or a body response.json() rejects
NoBody ==
    [kind |-> "none", hasValues |-> FALSE, values |-> <<>>,
     hasSheets |-> FALSE, sheets |-> <<>>, message |-> <<>>]
JsonBody(hasValues, values, hasSheets, sheets) ==
    [kind |-> "json", hasValues |-> hasValues, values |-> values,
     hasSheets |-> hasSheets, sheets |-> sheets, message |-> <<>>]
BadBody(m) ==
    [kind |-> "invalid", hasValues |-> FALSE, values |-> <<>>,
     hasSheets |-> FALSE, sheets |-> <<>>, message |-> m]

UnnamedDeal == Str(<<"U","n","n","a","m","e","d"," ","D","e","a","l">>)
Unknown     == Str(<<"U","n","k","n","o","w","n">>)
LitDeal     == <<"D","E","A","L","-">>

EmptyDeal == [h \in {} |-> Null]
\* deal.f, undefined read as Null (both are falsy and only tested for that)
Get(deal, f) == IF f \in DOMAIN deal THEN deal[f] ELSE Null
Put(deal, f, x) == (f :> x) @@ deal

\* the same reading an absent cell as the empty string
CellOrEmpty(row, col) == IF col <= Len(row) THEN row[col] ELSE Str(<<>>)

\* row[colIndex] !== undefined ? row[colIndex] : null
Cell(row, col) == IF col <= Len(row) THEN row[col] ELSE Null

CoerceDealValue(value) ==
    LET numValue == IF IsStr(value) THEN parseFloat(StripCurrency(value.s)) ELSE value
    IN  IF isNaN(numValue) THEN Num(0) ELSE numValue

\* the same degrading to 0 as deal_value does
CoerceProcessDaysAsZero(value) ==
    LET numValue == IF IsStr(value) THEN parseInt(value.s) ELSE value
    IN  IF isNaN(numValue) THEN Num(0) ELSE numValue

CoerceProcessDays(value) ==
    LET numValue == IF IsStr(value) THEN parseInt(value.s) ELSE value
    IN  IF isNaN(numValue) THEN Null ELSE numValue

\* the body of headers.forEach for one column
Coerce(header, value) ==
    IF header = "deal_value" THEN CoerceDealValue(value)
    ELSE IF header = "process_days" THEN CoerceProcessDays(value)
    ELSE value

\* headers.forEach, from column col on
RECURSIVE AssignColumns(_, _, _, _)
AssignColumns(deal, headers, row, col) ==
    IF col > Len(headers) THEN deal
    ELSE AssignColumns(Put(deal, headers[col], Coerce(headers[col], Cell(row, col))),
                       headers, row, col + 1)

\* the same built from the time alone
SynthesizedIdNoIndex(now, index) ==
    Str(LitDeal \o NatToChars(now))

\* `DEAL-${Date.now()}-${index}`
SynthesizedId(now, index) ==
    Str(LitDeal \o NatToChars(now) \o <<"-">> \o NatToChars(index))

\* x || d
OrDefault(x, d) == IF Truthy(x) THEN x ELSE d

\* the callback of rows.map for the row at index (from 0), Date.now() = now
MapRow(headers, row, index, now) ==
    LET d0 == AssignColumns(EmptyDeal, headers, row, 1)
        d1 == IF ~Truthy(Get(d0, "deal_id"))
              THEN Put(d0, "deal_id", SynthesizedId(now, index)) ELSE d0
        d2 == Put(d1, "deal_name", OrDefault(Get(d1, "deal_name"), UnnamedDeal))
        d3 == Put(d2, "broker_name", OrDefault(Get(d2, "broker_name"), Unknown))
        d4 == Put(d3, "status", OrDefault(Get(d3, "status"), Unknown))
    IN  Put(d4, "deal_value", OrDefault(Get(d4, "deal_value"), Num(0)))

\* rows.map(...): times[i] is what Date.now() returns for row i
MapRows(headers, rows, times) ==
    [i \in 1..Len(rows) |-> MapRow(headers, rows[i], i - 1, times[i])]

KeepDealAnd(deal) ==
    /\ Truthy(Get(deal, "deal_id"))
    /\ (Get(deal, "deal_name") # UnnamedDeal /\ GreaterThanZero(Get(deal, "deal_value")))

\* the callback of .filter
KeepDeal(deal) ==
    /\ Truthy(Get(deal, "deal_id"))
    /\ (Get(deal, "deal_name") # UnnamedDeal \/ GreaterThanZero(Get(deal, "deal_value")))

FilterDeals(cands) == SelectSeq(cands, KeepDeal)

\* the same without the check of rows.length
FetchOnJsonNoHeaderCheck(body, times) ==
    IF body.kind = "invalid" THEN [mapped |-> <<>>, result |-> Throw(body.message)]
    ELSE IF ~body.hasValues \/ Len(body.values) = 0
    THEN [mapped |-> <<>>, result |-> Throw(MsgNoData)]
    ELSE LET headers == Head(body.values)
             rows    == Tail(body.values)
         IN  [mapped |-> MapRows(headers, rows, times),
              result |-> ReturnDeals(FilterDeals(MapRows(headers, rows, times)))]

\* after await response.json(): [mapped |-> rows.map(...), result |-> ...]
FetchOnJson(body, times) ==
    IF body.kind = "invalid" THEN [mapped |-> <<>>, result |-> Throw(body.message)]
    ELSE IF ~body.hasValues \/ Len(body.values) = 0
    THEN [mapped |-> <<>>, result |-> Throw(MsgNoData)]
    ELSE LET headers == Head(body.values)
             rows    == Tail(body.values)
         IN  IF Len(rows) = 0
             THEN [mapped |-> <<>>, result |-> Throw(MsgHeadersOnly)]
             ELSE [mapped |-> MapRows(headers, rows, times),
                   result |-> ReturnDeals(FilterDeals(MapRows(headers, rows, times)))]

----------------------------------------------------------------------------
(* getSheetNames *)

DefaultNames == <<Str(Sheet1)>>

\* no check of the API key here
NamesStart(spreadsheetId, key) ==
    LET id == extractSpreadsheetId(spreadsheetId)
    IN  IF ~Truthy(id) THEN Ends(ReturnNames(DefaultNames))
        ELSE Sends(MetadataRequest(id.s, key))

NamesOnResponse(resp) ==
    IF resp.kind = "error" \/ ~Ok(resp) THEN ReturnNames(DefaultNames) ELSE NoResult

\* a sheet entry of the metadata: properties may be missing, and so may title
SheetEntry(hasProperties, hasTitle, title) ==
    [hasProperties |-> hasProperties, hasTitle |-> hasTitle, title |-> title]
Undefined == [t |-> "undefined", s |-> <<>>, k |-> "", v |-> 0]

\* data.sheets.map(sheet => sheet.properties.title); reading .title of a
\* missing properties throws a TypeError, which the catch clause swallows
NamesOnJson(body) ==
    IF body.kind = "invalid" THEN ReturnNames(DefaultNames)
    ELSE IF ~body.hasSheets \/ Len(body.sheets) = 0 THEN ReturnNames(DefaultNames)
    ELSE IF \E i \in 1..Len(body.sheets) : ~body.sheets[i].hasProperties
    THEN ReturnNames(DefaultNames)
    ELSE ReturnNames([i \in 1..Len(body.sheets) |->
                        IF body.sheets[i].hasTitle THEN Str(body.sheets[i].title)
                        ELSE Undefined])

----------------------------------------------------------------------------
(* SpecLocate: extractSpreadsheetId applied to bounded inputs *)

MaxSegments == 4

SegGidAfter  == <<"&","g","i","d","=","0">>
SegGidBefore == <<"g","i","d","=","0","&">>
Segments ==
    { LitSpreadsheetsD, LitD, LitId, <<"?">>, <<"/">>, <<" ">>,
      SegGidAfter, SegGidBefore, <<"a","1">>, <<"b">> }

RECURSIVE Concat(_)
Concat(ss) == IF ss = <<>> THEN <<>> ELSE Head(ss) \o Concat(Tail(ss))

LocInputs ==
    { Concat(ss) : ss \in UNION { [1..n -> Segments] : n \in 0..MaxSegments } }

IdleSvc ==
    /\ call = [fn |-> "none", spreadsheetId |-> <<>>, apiKey |-> <<>>]
    /\ callPc = "idle"
    /\ netLog = <<>>
    /\ response = NoResponse
    /\ data = NoBody
    /\ clock = <<>>
    /\ candidates = <<>>
    /\ result = NoResult

IdleUi ==
    /\ apiKey = <<>>
    /\ sheetId = <<>>
    /\ sheetRange = Sheet1
    /\ isLoading = FALSE
    /\ localError = <<>>
    /\ issued = 0
    /\ loads = <<>>
    /\ requests = <<>>
    /\ delivered = <<>>

IdleLoc ==
    /\ locInput = <<>>
    /\ locResult = Pending

InitLocate ==
    /\ locInput \in LocInputs
    /\ locResult = Pending
    /\ IdleSvc
    /\ IdleUi

\* one call of extractSpreadsheetId(locInput)
Locate ==
    /\ locResult = Pending
    /\ locResult' = extractSpreadsheetId(locInput)
    /\ UNCHANGED <<locInput, svcVars, uiVars>>

NextLocate == Locate

SpecLocate == InitLocate /\ [][NextLocate]_vars

----------------------------------------------------------------------------
(* SpecService: one call of a service function, with bounded arguments,
   transport responses and tables *)

MaxRows == 2
MaxTime == 2

CellEmpty    == Str(<<>>)
CellD1       == Str(<<"D","1">>)
CellD2       == Str(<<"D","2">>)
CellSynth    == Str(<<"D","E","A","L","-","1","-","1">>)
CellAcme     == Str(<<"A","c","m","e">>)
CellMoney    == Str(<<"$","1",",","2","0","0",".","5","0">>)
CellMinus5   == Str(<<"-","5">>)
CellFive     == Str(<<"5">>)
CellZero     == Str(<<"0">>)
CellInfinity == Str(LitInfinity)
CellNA       == Str(<<"N","/","A">>)
CellMinus3   == Str(<<"-","3">>)
CellTwoHalf  == Str(<<"2",".","5">>)
CellSeven    == Str(<<"7">>)

HeadersFull == <<"deal_id", "deal_name", "deal_value", "process_days">>
HeadersNoId == <<"deal_name", "deal_value">>
\* a free-form column whose name appears twice, around a named column
HeadersNote == <<"deal_id", "note", "deal_name", "note">>
HeaderRows  == {HeadersFull, HeadersNoId, HeadersNote}

DataRows ==
    { <<CellD1, CellAcme, CellMoney, CellSeven>>,
      <<CellD1, CellAcme, CellMinus5, CellMinus3>>,
      <<CellEmpty, CellEmpty, CellEmpty, CellEmpty>>,
      <<CellEmpty, CellEmpty, CellFive, CellNA>>,
      <<CellSynth, CellAcme, Num(-500), Num(250)>>,
      <<CellEmpty, CellAcme, CellInfinity, CellTwoHalf>>,
      <<CellD2, CellAcme, CellZero>>,
      <<CellD2, CellAcme>>,
      <<>>,
      <<CellD2, CellEmpty, Num(0), Num(-300)>> }

Tables ==
    { <<h>> \o rows : h \in HeaderRows,
                      rows \in UNION { [1..n -> DataRows] : n \in 0..MaxRows } }

FetchBodies ==
    { BadBody(Msg("Unexpected end of JSON input")),
      JsonBody(FALSE, <<>>, FALSE, <<>>),
      JsonBody(TRUE, <<>>, FALSE, <<>>) }
    \cup { JsonBody(TRUE, tbl, FALSE, <<>>) : tbl \in Tables }

SheetEntries ==
    { SheetEntry(TRUE, TRUE, Sheet1),
      SheetEntry(TRUE, TRUE, <<"D","e","a","l","s">>),
      SheetEntry(TRUE, FALSE, <<>>),
      SheetEntry(FALSE, FALSE, <<>>) }

NamesBodies ==
    { BadBody(Msg("Unexpected end of JSON input")),
      JsonBody(FALSE, <<>>, FALSE, <<>>),
      JsonBody(FALSE, <<>>, TRUE, <<>>) }
    \cup { JsonBody(FALSE, <<>>, TRUE, ss) :
             ss \in UNION { [1..n -> SheetEntries] : n \in 1..MaxRows } }

SvcIds ==
    { <<"a","1">>, <<" ","a","1">>, <<>>, <<" ">>, <<"?","x">>,
      LitD \o <<"a","1">> \o <<"/">> }
SvcKeys == { <<>>, <<" ">>, <<"k">> }

Responses ==
    { Http(200, "OK"), NetError(Msg("Failed to fetch")) }
    \cup { Http(st, tx) : st \in {403, 404, 500}, tx \in {"", "Server Error"} }

InitService ==
    /\ IdleLoc
    /\ IdleSvc
    /\ IdleUi

\* validateGoogleSheetConnection(id, key) is called and runs to its first await
CallValidate ==
    /\ callPc = "idle"
    /\ \E id \in SvcIds, key \in SvcKeys :
        /\ call' = [fn |-> "validate", spreadsheetId |-> id, apiKey |-> key]
        /\ netLog' = netLog \o ValidateStart(id, key).request
        /\ result' = ValidateStart(id, key).result
        /\ callPc' = IF ValidateStart(id, key).request = <<>> THEN "done"
                     ELSE "awaitResponse"
    /\ UNCHANGED <<response, data, clock, candidates, locVars, uiVars>>

\* fetchGoogleSheetData(id, key) is called and runs to its first await
CallFetch ==
    /\ callPc = "idle"
    /\ \E id \in SvcIds, key \in SvcKeys :
        /\ call' = [fn |-> "fetch", spreadsheetId |-> id, apiKey |-> key]
        /\ netLog' = netLog \o FetchStart(id, key, Sheet1).request
        /\ result' = FetchStart(id, key, Sheet1).result
        /\ callPc' = IF FetchStart(id, key, Sheet1).request = <<>> THEN "done"
                     ELSE "awaitResponse"
    /\ UNCHANGED <<response, data, clock, candidates, locVars, uiVars>>

\* getSheetNames(id, key) is called and runs to its first await
CallGetSheetNames ==
    /\ callPc = "idle"
    /\ \E id \in SvcIds, key \in SvcKeys :
        /\ call' = [fn |-> "names", spreadsheetId |-> id, apiKey |-> key]
        /\ netLog' = netLog \o NamesStart(id, key).request
        /\ result' = NamesStart(id, key).result
        /\ callPc' = IF NamesStart(id, key).request = <<>> THEN "done"
                     ELSE "awaitResponse"
    /\ UNCHANGED <<response, data, clock, candidates, locVars, uiVars>>

\* the awaited fetch(url) settles in validateGoogleSheetConnection
ValidateResponse ==
    /\ callPc = "awaitResponse"
    /\ call.fn = "validate"
    /\ \E resp \in Responses :
        /\ response' = resp
        /\ result' = ValidateOnResponse(resp)
    /\ callPc' = "done"
    /\ UNCHANGED <<call, netLog, data, clock, candidates, locVars, uiVars>>

\* the awaited fetch(url) settles in fetchGoogleSheetData
FetchResponse ==
    /\ callPc = "awaitResponse"
    /\ call.fn = "fetch"
    /\ \E resp \in Responses :
        /\ response' = resp
        /\ result' = FetchOnResponse(resp)
        /\ callPc' = IF FetchOnResponse(resp).kind = "pending" THEN "awaitJson"
                     ELSE "done"
    /\ UNCHANGED <<call, netLog, data, clock, candidates, locVars, uiVars>>

\* the awaited fetch(url) settles in getSheetNames
NamesResponse ==
    /\ callPc = "awaitResponse"
    /\ call.fn = "names"
    /\ \E resp \in Responses :
        /\ response' = resp
        /\ result' = NamesOnResponse(resp)
        /\ callPc' = IF NamesOnResponse(resp).kind = "pending" THEN "awaitJson"
                     ELSE "done"
    /\ UNCHANGED <<call, netLog, data, clock, candidates, locVars, uiVars>>

\* the awaited response.json() settles in fetchGoogleSheetData
FetchJson ==
    /\ callPc = "awaitJson"
    /\ call.fn = "fetch"
    /\ \E b \in FetchBodies :
        \E ts \in [1..(IF Len(b.values) > 1 THEN Len(b.values) - 1 ELSE 0) -> 1..MaxTime] :
            /\ data' = b
            /\ clock' = ts
            /\ candidates' = FetchOnJson(b, ts).mapped
            /\ result' = FetchOnJson(b, ts).result
    /\ callPc' = "done"
    /\ UNCHANGED <<call, netLog, response, locVars, uiVars>>

\* the awaited response.json() settles in getSheetNames
NamesJson ==
    /\ callPc = "awaitJson"
    /\ call.fn = "names"
    /\ \E b \in NamesBodies :
        /\ data' = b
        /\ result' = NamesOnJson(b)
    /\ callPc' = "done"
    /\ UNCHANGED <<call, netLog, response, clock, candidates, locVars, uiVars>>

NextService ==
    \/ CallValidate
    \/ CallFetch
    \/ CallGetSheetNames
    \/ ValidateResponse
    \/ FetchResponse
    \/ NamesResponse
    \/ FetchJson
    \/ NamesJson

SpecService == InitService /\ [][NextService]_vars

----------------------------------------------------------------------------
(* Spec: the GoogleSheetsLoader component.  handleLoad tests neither
   isLoading nor any token of the invocation, and it hands no abort signal to
   the two round trips; the disabled attribute of the button reads the
   isLoading prop, which belongs to the parent and not to this code.  So the
   function may be invoked while earlier invocations still wait for the
   network, up to MaxLoads invocations in a run. *)

MaxLoads == 2

MsgEnterKey     == Msg("Please enter a Google API Key")
MsgEnterSheet   == Msg("Please enter a Google Sheets ID or URL")
MsgConnectFail  == Msg("Failed to connect to Google Sheets")
MsgNoValidDeals == Msg("No valid deals found in the sheet")
NoMessage       == <<>>

\* calls to the props
SetIsLoading(l, flag) ==
    [load |-> l, fn |-> "setIsLoading", flag |-> flag, message |-> <<>>, deals |-> <<>>]
OnError(l, m) ==
    [load |-> l, fn |-> "onError", flag |-> FALSE, message |-> m, deals |-> <<>>]
OnDataLoad(l, ds) ==
    [load |-> l, fn |-> "onDataLoad", flag |-> FALSE, message |-> <<>>, deals |-> ds]

\* what one run of handleLoad code does to the component and its props
Effect(calls, err, pc, reqs) ==
    [calls |-> calls, localError |-> err, pc |-> pc, requests |-> reqs,
     validation |-> NoResult]

\* the same without the finally clause
CaughtNoFinally(l, m) ==
    Effect(<<OnError(l, m)>>, m, "done", <<>>)

\* catch (err) { setLocalError; onError } finally { setIsLoading(false) }
Caught(l, m) ==
    Effect(<<OnError(l, m), SetIsLoading(l, FALSE)>>, m, "done", <<>>)

\* lines 79-90, with the value fetchGoogleSheetData resolved to or threw
AfterFetch(l, res) ==
    IF res.kind = "throw" THEN Caught(l, res.error)
    ELSE IF Len(res.deals) = 0 THEN Caught(l, MsgNoValidDeals)
    ELSE Effect(<<OnDataLoad(l, res.deals), SetIsLoading(l, FALSE)>>, <<>>, "done", <<>>)

AfterValidationAlwaysFetch(l, ld, validation) ==
    LET st == FetchStart(ld.sheetId, ld.apiKey, ld.sheetRange)
    IN  IF st.request = <<>> THEN AfterFetch(l, st.result)
        ELSE Effect(<<>>, <<>>, "awaitFetch", st.request)

\* lines 72-77, with the value validateGoogleSheetConnection resolved to:
\* throw on an invalid connection, else call fetchGoogleSheetData
AfterValidation(l, ld, validation) ==
    IF ~validation.valid
    THEN Caught(l, IF validation.error = <<>> THEN MsgConnectFail ELSE validation.error)
    ELSE LET st == FetchStart(ld.sheetId, ld.apiKey, ld.sheetRange)
         IN  IF st.request = <<>> THEN AfterFetch(l, st.result)
             ELSE Effect(<<>>, <<>>, "awaitFetch", st.request)

\* lines 53-70: the checks of the form, then the call of the validator
HandleLoadStart(l, ld) ==
    IF Trim(ld.apiKey) = <<>>
    THEN Effect(<<OnError(l, MsgEnterKey)>>, MsgEnterKey, "rejected", <<>>)
    ELSE IF Trim(ld.sheetId) = <<>>
    THEN Effect(<<OnError(l, MsgEnterSheet)>>, MsgEnterSheet, "rejected", <<>>)
    ELSE LET st    == ValidateStart(ld.sheetId, ld.apiKey)
             begin == <<SetIsLoading(l, TRUE), OnError(l, NoMessage)>>
         IN  IF st.request = <<>>
             THEN LET e == AfterValidation(l, ld, st.result)
                  IN  [Effect(begin \o e.calls, e.localError, e.pc, e.requests)
                          EXCEPT !.validation = st.result]
             ELSE Effect(begin, <<>>, "awaitValidate", st.request)

\* the flag after the calls of a step
FlagAfter(flag, calls) ==
    LET sets == SelectSeq(calls, LAMBDA c : c.fn = "setIsLoading")
    IN  IF sets = <<>> THEN flag ELSE sets[Len(sets)].flag

Tag(l, reqs) == [i \in 1..Len(reqs) |-> [load |-> l, request |-> reqs[i]]]

FormKeys   == { <<>>, <<"k">> }
FormSheets == { <<>>, <<"a","1">>, <<"?","x">> }

UiResponses == { Http(200, "OK"), Http(403, ""), NetError(Msg("Failed to fetch")) }

UiBodies ==
    { JsonBody(TRUE, <<>>, FALSE, <<>>),
      JsonBody(TRUE, <<HeadersFull, <<CellD1, CellAcme, CellMoney, CellSeven>>>>, FALSE, <<>>),
      JsonBody(TRUE, <<HeadersFull, <<>>>>, FALSE, <<>>),
      JsonBody(TRUE, <<HeadersFull>>, FALSE, <<>>) }

Init ==
    /\ IdleLoc
    /\ IdleSvc
    /\ IdleUi

\* onChange of the API key input
SetApiKey ==
    /\ \E v \in FormKeys : v # apiKey /\ apiKey' = v
    /\ UNCHANGED <<sheetId, sheetRange, isLoading, localError, issued, loads,
                   requests, delivered, locVars, svcVars>>

\* onChange of the sheet input
SetSheetId ==
    /\ \E v \in FormSheets : v # sheetId /\ sheetId' = v
    /\ UNCHANGED <<apiKey, sheetRange, isLoading, localError, issued, loads,
                   requests, delivered, locVars, svcVars>>

\* the effect of a step of invocation l on the state of the component; v is
\* the value of the constant `validation` of the invocation
Apply(l, e, v) ==
    /\ loads' = [loads EXCEPT ![l].pc = e.pc, ![l].validation = v]
    /\ delivered' = delivered \o e.calls
    /\ requests' = requests \o Tag(l, e.requests)
    /\ isLoading' = FlagAfter(isLoading, e.calls)
    /\ localError' = e.localError

\* handleLoad is invoked; it runs to its first pending await
HandleLoad ==
    /\ issued < MaxLoads
    /\ issued' = issued + 1
    /\ LET l  == issued + 1
           ld == [pc |-> "start", apiKey |-> apiKey, sheetId |-> sheetId,
                  sheetRange |-> sheetRange, validation |-> NoResult]
           e  == HandleLoadStart(l, ld)
       IN  /\ loads' = Append(loads, [ld EXCEPT !.pc = e.pc, !.validation = e.validation])
           /\ delivered' = delivered \o e.calls
           /\ requests' = requests \o Tag(l, e.requests)
           /\ isLoading' = FlagAfter(isLoading, e.calls)
           /\ localError' = e.localError
    /\ UNCHANGED <<apiKey, sheetId, sheetRange, locVars, svcVars>>

\* the validator's request of invocation l settles; handleLoad resumes
ValidationSettles ==
    \E l \in 1..Len(loads) :
        /\ loads[l].pc = "awaitValidate"
        /\ \E resp \in UiResponses :
            Apply(l, AfterValidation(l, loads[l], ValidateOnResponse(resp)),
                  ValidateOnResponse(resp))
        /\ UNCHANGED <<apiKey, sheetId, sheetRange, issued, locVars, svcVars>>

\* the fetch request of invocation l settles
FetchSettles ==
    \E l \in 1..Len(loads) :
        /\ loads[l].pc = "awaitFetch"
        /\ \E resp \in UiResponses :
            IF FetchOnResponse(resp).kind = "pending"
            THEN Apply(l, Effect(<<>>, localError, "awaitJson", <<>>), loads[l].validation)
            ELSE Apply(l, AfterFetch(l, FetchOnResponse(resp)), loads[l].validation)
        /\ UNCHANGED <<apiKey, sheetId, sheetRange, issued, locVars, svcVars>>

\* the body of the fetch response of invocation l settles
JsonSettles ==
    \E l \in 1..Len(loads) :
        /\ loads[l].pc = "awaitJson"
        /\ \E b \in UiBodies :
            Apply(l, AfterFetch(l, FetchOnJson(b, [i \in 1..(Len(b.values) - 1) |-> 1]).result),
                  loads[l].validation)
        /\ UNCHANGED <<apiKey, sheetId, sheetRange, issued, locVars, svcVars>>

Next ==
    \/ SetApiKey
    \/ SetSheetId
    \/ HandleLoad
    \/ ValidationSettles
    \/ FetchSettles
    \/ JsonSettles

Spec == Init /\ [][Next]_vars

\* every pending await of handleLoad resumes: the promise of a round trip
\* settles, resolved or rejected, and the continuation then runs
SpecLive ==
    /\ Spec
    /\ WF_vars(ValidationSettles)
    /\ WF_vars(FetchSettles)
    /\ WF_vars(JsonSettles)

----------------------------------------------------------------------------
(* Reference notions used to state the claims about extractSpreadsheetId *)

\* the identifier that follows position j: the maximal run of IdChar
RefRunEnd(s, j) ==
    CHOOSE e \in (j - 1)..Len(s) :
        /\ \A x \in j..e : s[x] \in IdChar
        /\ (e = Len(s) \/ s[e + 1] \notin IdChar)
RefRun(s, j) == SubSeq(s, j, RefRunEnd(s, j))

\* the regular expression lit([a-zA-Z0-9-_]+) matches s at position i
RefMatchAt(s, lit, i) ==
    /\ i >= 1
    /\ i + Len(lit) <= Len(s)
    /\ SubSeq(s, i, i + Len(lit) - 1) = lit
    /\ s[i + Len(lit)] \in IdChar
RefHasMatch(s, lit) == \E i \in 1..Len(s) : RefMatchAt(s, lit, i)
RefCapture(s, lit) ==
    LET i == CHOOSE x \in 1..Len(s) :
                 /\ RefMatchAt(s, lit, x)
                 /\ \A y \in 1..(x - 1) : ~RefMatchAt(s, lit, y)
    IN  RefRun(s, i + Len(lit))

RefHasSeparator(s) == \E i \in 1..Len(s) : s[i] \in {"/", "?"}

RefTrim(s) ==
    LET solid == { i \in 1..Len(s) : s[i] # " " }
    IN  IF solid = {} THEN <<>>
        ELSE SubSeq(s, CHOOSE i \in solid : \A j \in solid : i <= j,
                       CHOOSE i \in solid : \A j \in solid : i >= j)

\* C8: extractSpreadsheetId equals the reference: the trimmed input when the
\* input holds neither '/' nor '?'; otherwise the capture of the first of the
\* patterns spreadsheets/d/, /d/, id= (in this order) that matches; otherwise
\* null; and it is null only with a separator and no matching pattern.
C8_LocateMatchesReference ==
    locResult # Pending =>
        /\ ~RefHasSeparator(locInput) => locResult = Str(RefTrim(locInput))
        /\ RefHasSeparator(locInput) =>
            locResult =
                IF RefHasMatch(locInput, LitSpreadsheetsD)
                THEN Str(RefCapture(locInput, LitSpreadsheetsD))
                ELSE IF RefHasMatch(locInput, LitD)
                THEN Str(RefCapture(locInput, LitD))
                ELSE IF RefHasMatch(locInput, LitId)
                THEN Str(RefCapture(locInput, LitId))
                ELSE Null
        /\ locResult = Null =>
            /\ RefHasSeparator(locInput)
            /\ ~RefHasMatch(locInput, LitSpreadsheetsD)
            /\ ~RefHasMatch(locInput, LitD)
            /\ ~RefHasMatch(locInput, LitId)

\* C8 witness: a URL in which the second pattern matches before the place
\* where the first one matches; the capture of the first pattern is returned
C8_Witness ==
    /\ locInput = LitD \o <<"b">> \o LitSpreadsheetsD \o <<"a","1">>
    /\ locResult = Str(<<"a","1">>)

\* The three supported URL shapes: an identifier in the path segment after
\* spreadsheets/d/ (1), after /d/ (2), or in the query parameter id= (3), the
\* parameter name starting right after '?' or '&' of a query string.
ShapeAt(s, k, i) ==
    CASE k = 1 -> RefMatchAt(s, LitSpreadsheetsD, i)
      [] k = 2 -> RefMatchAt(s, LitD, i)
      [] k = 3 -> /\ RefMatchAt(s, LitId, i)
                  /\ i > 1
                  /\ s[i - 1] \in {"?", "&"}
                  /\ \E q \in 1..(i - 1) : s[q] = "?"
ShapeLit(k) == CASE k = 1 -> LitSpreadsheetsD [] k = 2 -> LitD [] k = 3 -> LitId
ShapeIds(s) ==
    { RefRun(s, i + Len(ShapeLit(k))) :
        <<k, i>> \in { ki \in (1..3) \X (1..Len(s)) : ShapeAt(s, ki[1], ki[2]) } }

\* C7: for an input that carries an identifier ID in one of the three shapes
\* (and no second identifier in any shape), extractSpreadsheetId returns ID
\* whatever other path segments or query parameters surround it.
C7_ShapeIdExtracted ==
    (locResult # Pending /\ Cardinality(ShapeIds(locInput)) = 1) =>
        \A id \in ShapeIds(locInput) : locResult = Str(id)

----------------------------------------------------------------------------
(* Claims about one ingestion run (SpecService) *)

FetchReturned == callPc = "done" /\ call.fn = "fetch" /\ result.kind = "return"

\* C1: in the record sequence returned by one ingestion run every record has
\* a non-empty deal_id and no two records have the same deal_id, also when
\* the source supplies the deal_id values itself.
C1_DealIdsUnique ==
    FetchReturned =>
        /\ \A i \in 1..Len(result.deals) :
            /\ result.deals[i]["deal_id"].t = "str"
            /\ result.deals[i]["deal_id"].s # <<>>
        /\ \A i, j \in 1..Len(result.deals) :
            i # j => result.deals[i]["deal_id"] # result.deals[j]["deal_id"]

\* C2: every record produced by normalization has a deal_value that is a
\* finite number greater than or equal to zero.
C2_DealValueFiniteNonNegative ==
    FetchReturned =>
        \A i \in 1..Len(candidates) :
            /\ candidates[i]["deal_value"].t = "num"
            /\ candidates[i]["deal_value"].k = "fin"
            /\ candidates[i]["deal_value"].v >= 0

\* C3: every record produced by normalization has process_days either null
\* or a non-negative integer.
C3_ProcessDaysNullOrNatural ==
    FetchReturned =>
        \A i \in 1..Len(candidates) :
            "process_days" \in DOMAIN candidates[i] =>
                \/ candidates[i]["process_days"] = Null
                \/ /\ candidates[i]["process_days"].t = "num"
                   /\ candidates[i]["process_days"].k = "fin"
                   /\ candidates[i]["process_days"].v >= 0
                   /\ candidates[i]["process_days"].v % Scale = 0

\* the filter rule in the words of the claim
RefNonEmptyId(c) ==
    "deal_id" \in DOMAIN c /\ c["deal_id"] \notin {Null, Str(<<>>)}
RefPositive(x) == x.t = "num" /\ x.k # "nan" /\ x.v > 0
RefKept(c) ==
    /\ RefNonEmptyId(c)
    /\ (c["deal_name"] # UnnamedDeal \/ RefPositive(c["deal_value"]))

\* C6: filter returns exactly the candidates that have a non-empty deal_id
\* and (a deal_name other than "Unnamed Deal" or a deal_value above zero), in
\* their input order, none added, duplicated or reordered.
C6_FilterKeepsExactly ==
    FetchReturned =>
        LET kept == { i \in 1..Len(candidates) : RefKept(candidates[i]) }
            n    == Len(result.deals)
        IN  /\ n = Cardinality(kept)
            /\ \E f \in [1..n -> kept] :
                /\ \A a, b \in 1..n : a < b => f[a] < f[b]
                /\ \A a \in 1..n : result.deals[a] = candidates[f[a]]

\* C6 witness: a run in which a row with the default name and value 5 is
\* kept and a row with the default name and value 0 is dropped
C6_Witness ==
    /\ FetchReturned
    /\ Len(candidates) = 2
    /\ Len(result.deals) = 1
    /\ candidates[1]["deal_name"] = UnnamedDeal
    /\ candidates[1]["deal_value"] = Num(0)
    /\ candidates[2]["deal_name"] = UnnamedDeal
    /\ candidates[2]["deal_value"] = Num(5 * Scale)
    /\ result.deals[1] = candidates[2]

\* the input resolves to an identifier
RefResolves(s) ==
    IF RefHasSeparator(s)
    THEN \E p \in 1..3 : RefHasMatch(s, ShapeLit(p))
    ELSE RefTrim(s) # <<>>
RefBlank(s) == \A i \in 1..Len(s) : s[i] = " "

\* C9: validateGoogleSheetConnection returns valid=false with the
\* InvalidIdentifier reason when the input does not resolve, otherwise with
\* the MissingCredential reason when the credential is empty or blank, both
\* without a network request; in every other case it issues exactly one
\* request and never a second one.
C9_ValidateGuardsSingleRequest ==
    call.fn = "validate" =>
        /\ ~RefResolves(call.spreadsheetId) =>
            /\ callPc = "done"
            /\ result = Invalid(MsgInvalidId)
            /\ netLog = <<>>
        /\ (RefResolves(call.spreadsheetId) /\ RefBlank(call.apiKey)) =>
            /\ callPc = "done"
            /\ result = Invalid(MsgApiKeyRequired)
            /\ netLog = <<>>
        /\ (RefResolves(call.spreadsheetId) /\ ~RefBlank(call.apiKey)) =>
            /\ Len(netLog) = 1
            /\ netLog[1].endpoint = "metadata"
            /\ callPc = "done" => response # NoResponse

\* C9 witness: the validator ended on a failed response with its one request
C9_Witness ==
    /\ call.fn = "validate"
    /\ callPc = "done"
    /\ response = Http(500, "Server Error")
    /\ result.valid = FALSE
    /\ Len(netLog) = 1

\* the taxonomy class of a reason, with the status text it carries
ReasonClass(m) ==
    CASE m \in {MsgValidateDenied, MsgFetchDenied} -> <<"AccessDenied", "">>
      [] m \in {MsgValidateNotFound, MsgFetchNotFound} -> <<"NotFound", "">>
      [] m # <<>> /\ m[1] \in {"Connection failed: ", "Failed to fetch data: "} ->
            <<"TransportFailure", IF Len(m) = 2 THEN m[2] ELSE "">>
      [] OTHER -> <<"Other", "">>

FetchFailedOnStatus ==
    /\ callPc = "done"
    /\ call.fn = "fetch"
    /\ response.kind = "http"
    /\ ~Ok(response)

\* C10 as stated: for every response that is not a success, the reason with
\* which the fetch fails equals the reason the validator returns for it.
C10_FetchReasonEqualsValidator ==
    FetchFailedOnStatus => result.error = ValidateReason(response)

\* C10 as amended: for every response that is not a success, the fetch fails
\* with a reason of the same class as the validator's reason for it (access
\* denied for 403, not found for 404, otherwise a transport failure carrying
\* the status text); the texts of the reasons differ.
C10_FetchReasonSameClass ==
    FetchFailedOnStatus =>
        /\ result.kind = "throw"
        /\ ReasonClass(result.error) = ReasonClass(ValidateReason(response))
        /\ ReasonClass(result.error)[1] =
             (IF response.status = 403 THEN "AccessDenied"
              ELSE IF response.status = 404 THEN "NotFound" ELSE "TransportFailure")
        /\ result.error # ValidateReason(response)

\* C10 witness: a fetch that failed on a 403 response
C10_Witness ==
    /\ FetchFailedOnStatus
    /\ response.status = 403
    /\ result = Throw(MsgFetchDenied)

----------------------------------------------------------------------------
(* Claims about handleLoad (Spec) *)

\* C4: the result of an older invocation is never delivered to the consumer
\* (onDataLoad / onError) after a newer invocation was issued.
C4_StaleNeverDelivered ==
    [][\A i \in (Len(delivered) + 1)..Len(delivered') :
          delivered'[i].fn \in {"onDataLoad", "onError"} =>
              delivered'[i].load = issued']_vars

ValuesRequested(l) ==
    \E i \in 1..Len(requests) :
        requests[i].load = l /\ requests[i].request.endpoint = "values"
MetadataRequested(l) ==
    \E i \in 1..Len(requests) :
        requests[i].load = l /\ requests[i].request.endpoint = "metadata"
CallsOf(l) == SelectSeq(delivered, LAMBDA c : c.load = l)

\* C5: in every attempt of handleLoad the fetch request is issued only after
\* the validator returned valid, the validator's request coming first; when
\* validation returns invalid or its round trip fails, the attempt issues no
\* fetch request, ends, and hands the validation reason to onError.
C5_FetchOnlyAfterValid ==
    \A l \in 1..Len(loads) :
        /\ ValuesRequested(l) =>
            /\ loads[l].validation = Valid
            /\ \E i, j \in 1..Len(requests) :
                /\ i < j
                /\ requests[i].load = l /\ requests[i].request.endpoint = "metadata"
                /\ requests[j].load = l /\ requests[j].request.endpoint = "values"
        /\ (loads[l].validation.kind = "return" /\ ~loads[l].validation.valid) =>
            /\ ~ValuesRequested(l)
            /\ loads[l].pc = "done"
            /\ \A i \in 1..Len(CallsOf(l)) : CallsOf(l)[i].fn # "onDataLoad"
            /\ \E i \in 1..Len(CallsOf(l)) :
                /\ CallsOf(l)[i] = OnError(l, loads[l].validation.error)
                /\ loads[l].validation.error # <<>>
                /\ \A j \in (i + 1)..Len(CallsOf(l)) : CallsOf(l)[j].fn = "setIsLoading"

\* C5 witness: an attempt whose validation round trip failed with 403
C5_Witness ==
    \E l \in 1..Len(loads) :
        /\ loads[l].validation = Invalid(MsgValidateDenied)
        /\ MetadataRequested(l)
        /\ ~ValuesRequested(l)
        /\ loads[l].pc = "done"

----------------------------------------------------------------------------
(* C11: an empty range and a headers-only range *)

FetchParsed ==
    /\ callPc = "done"
    /\ call.fn = "fetch"
    /\ response.kind = "http"
    /\ Ok(response)
    /\ data.kind = "json"

\* C11: after a success response, a range with no values or zero rows fails
\* the fetch with 'No data found in the specified range', a range of exactly
\* one row fails it with 'Sheet contains headers but no data rows', neither
\* returning any record; a range of two or more rows fails with neither.
C11_EmptyAndHeadersOnly ==
    FetchParsed =>
        /\ (~data.hasValues \/ Len(data.values) = 0) =>
            /\ result = Throw(MsgNoData)
            /\ candidates = <<>> /\ result.deals = <<>>
        /\ (data.hasValues /\ Len(data.values) = 1) =>
            /\ result = Throw(MsgHeadersOnly)
            /\ candidates = <<>> /\ result.deals = <<>>
        /\ (data.hasValues /\ Len(data.values) >= 2) =>
            ~(result.kind = "throw" /\ result.error \in {MsgNoData, MsgHeadersOnly})

\* C11 witness: a range holding the header row alone was refused
C11_Witness ==
    /\ FetchParsed
    /\ data.hasValues /\ data.values = <<HeadersFull>>
    /\ result = Throw(MsgHeadersOnly)

----------------------------------------------------------------------------
(* C12: getSheetNames always answers with names *)

NamesDone == callPc = "done" /\ call.fn = "names"

\* a sheet entry from which no title can be read
RefMalformedEntry(e) == ~e.hasProperties \/ ~e.hasTitle

\* the call could not read a list of titles: unusable id, failed or refused
\* round trip, unparseable body, no sheet list, or a malformed sheet entry
RefNamesFailure ==
    \/ ~RefResolves(call.spreadsheetId)
    \/ response.kind = "error"
    \/ (response.kind = "http" /\ ~Ok(response))
    \/ data.kind = "invalid"
    \/ (data.kind = "json" /\ (~data.hasSheets \/ Len(data.sheets) = 0))
    \/ (data.kind = "json" /\ data.hasSheets
          /\ \E i \in 1..Len(data.sheets) : RefMalformedEntry(data.sheets[i]))

\* C12: getSheetNames never fails and always returns a non-empty sequence of
\* names; on any failure (unusable id, failed or refused round trip,
\* unparseable body, missing or empty sheet list, malformed sheet entry) it
\* returns exactly <<"Sheet1">>, otherwise the sheet titles in response order.
C12_NamesDefaultOrTitles ==
    NamesDone =>
        /\ result.kind = "return"
        /\ result.names # <<>>
        /\ \A i \in 1..Len(result.names) : IsStr(result.names[i])
        /\ IF RefNamesFailure
           THEN result.names = DefaultNames
           ELSE result.names =
                    [i \in 1..Len(data.sheets) |-> Str(data.sheets[i].title)]

----------------------------------------------------------------------------
(* C13: one field per header, absent cells *)

FetchMapped == callPc = "done" /\ call.fn = "fetch" /\ candidates # <<>>

RefHeaderNames(headers) == { headers[c] : c \in 1..Len(headers) }

\* the columns of the header row for which row i of the data has no cell
RefAbsentColumns(i) ==
    { c \in 1..Len(Head(data.values)) : c > Len(Tail(data.values)[i]) }

RefUniformShape ==
    /\ Len(candidates) = Len(Tail(data.values))
    /\ \A i \in 1..Len(candidates) :
        /\ RefHeaderNames(Head(data.values)) \subseteq DOMAIN candidates[i]
        /\ DOMAIN candidates[i] = DOMAIN candidates[1]

\* C13 as stated: every header gives a field on every normalized record, all
\* records have the same field set, and a cell absent because the row is
\* shorter than the header row is null in its field, whichever field it is.
C13_AbsentCellsNull ==
    FetchMapped =>
        /\ RefUniformShape
        /\ \A i \in 1..Len(candidates) : \A c \in RefAbsentColumns(i) :
            candidates[i][Head(data.values)[c]] = Null

RefDefaultFilled == {"deal_id", "deal_name", "broker_name", "status", "deal_value"}

RefDefaultOf(f, i) ==
    CASE f = "deal_id" -> SynthesizedId(clock[i], i - 1)
      [] f = "deal_name" -> UnnamedDeal
      [] f = "deal_value" -> Num(0)
      [] OTHER -> Unknown

\* C13 amended: every header gives a field on every normalized record and all
\* records have the same field set; an absent cell is null in its field,
\* except in a default-filled field, which then holds its default.
C13_AbsentCellsNullOrDefault ==
    FetchMapped =>
        /\ RefUniformShape
        /\ \A i \in 1..Len(candidates) : \A c \in RefAbsentColumns(i) :
            LET f == Head(data.values)[c]
            IN  candidates[i][f] =
                    IF f \in RefDefaultFilled THEN RefDefaultOf(f, i) ELSE Null

\* C13 witness: under the repeated header a short row next to a full one; the
\* short row lacks the second "note" cell and the default-filled deal_name
C13_Witness ==
    /\ FetchMapped
    /\ Head(data.values) = HeadersNote
    /\ Tail(data.values) = << <<CellD1, CellAcme, CellMoney, CellSeven>>,
                              <<CellD2, CellAcme>> >>
    /\ candidates[1]["note"] = CellSeven
    /\ candidates[2]["note"] = Null
    /\ candidates[2]["deal_name"] = UnnamedDeal

----------------------------------------------------------------------------
(* C14: an unparseable process_days *)

\* a text with no integer at its start: after leading white space and one
\* optional sign there is no digit
RefNoInteger(x) ==
    /\ IsStr(x)
    /\ LET t == TrimStart(x.s)
           u == IF t # <<>> /\ t[1] \in {"+", "-"} THEN Tail(t) ELSE t
       IN  u = <<>> \/ u[1] \notin Digit

\* the last column of the header row named f, 0 when there is none
RefColumnOf(f) ==
    LET cs == { c \in 1..Len(Head(data.values)) : Head(data.values)[c] = f }
    IN  IF cs = {} THEN 0 ELSE CHOOSE c \in cs : \A d \in cs : d <= c

\* C14: normalization never fails on a coercion problem of a row: a
\* process_days cell whose text cannot be parsed as an integer gives
\* process_days = null (not 0), the row still gives its candidate record, and
\* the other rows of the batch are processed as well.
C14_UnparseableDaysNull ==
    (FetchParsed /\ data.hasValues /\ Len(data.values) >= 2) =>
        /\ result.kind = "return"
        /\ Len(candidates) = Len(data.values) - 1
        /\ \A i \in 1..Len(candidates) :
            LET row == Tail(data.values)[i]
                c   == RefColumnOf("process_days")
            IN  (c > 0 /\ c <= Len(row) /\ RefNoInteger(row[c])) =>
                    /\ candidates[i]["process_days"] = Null
                    /\ candidates[i]["process_days"] # Num(0)

\* C14 witness: "N/A" in the first row, "7" in the second, both mapped
C14_Witness ==
    /\ FetchParsed
    /\ data.values = <<HeadersFull,
                       <<CellEmpty, CellEmpty, CellFive, CellNA>>,
                       <<CellD1, CellAcme, CellMoney, CellSeven>>>>
    /\ Len(candidates) = 2
    /\ candidates[1]["process_days"] = Null
    /\ candidates[2]["process_days"] = parseInt(CellSeven.s)
    /\ Len(result.deals) = 2

----------------------------------------------------------------------------
(* C15: synthesized ids within one batch *)

\* data row i brings no deal_id: no such column, no cell, or an empty cell
RefNoSourceId(i) ==
    LET row == Tail(data.values)[i]
        c   == RefColumnOf("deal_id")
    IN  c = 0 \/ c > Len(row) \/ row[c] \in {Null, Str(<<>>)}

\* C15: within one batch, two data rows at different positions whose deal_id
\* is empty or absent get different synthesized deal_id values, whether
\* Date.now() returned the same time for both or the time changed in between.
C15_SynthesizedIdsDistinct ==
    FetchMapped =>
        \A i, j \in 1..Len(candidates) :
            (i # j /\ RefNoSourceId(i) /\ RefNoSourceId(j)) =>
                /\ IsStr(candidates[i]["deal_id"])
                /\ candidates[i]["deal_id"].s # <<>>
                /\ candidates[i]["deal_id"] # candidates[j]["deal_id"]

\* C15 witness: two rows without deal_id mapped at the same time
C15_Witness ==
    /\ FetchMapped
    /\ Len(candidates) = 2
    /\ RefNoSourceId(1) /\ RefNoSourceId(2)
    /\ clock[1] = clock[2]
    /\ candidates[1]["deal_id"] = SynthesizedId(clock[1], 0)
    /\ candidates[2]["deal_id"] = SynthesizedId(clock[2], 1)

----------------------------------------------------------------------------
(* C16: the loading flag and the outcome of an invocation *)

\* a final outcome: records handed over, or a message that says something
RefOutcome(c) ==
    \/ c.fn = "onDataLoad" /\ c.deals # <<>>
    \/ c.fn = "onError" /\ c.message # <<>>

RefCount(cs, P(_)) == Cardinality({ i \in 1..Len(cs) : P(cs[i]) })

RefRaised(l) == \E i \in 1..Len(delivered) : delivered[i] = SetIsLoading(l, TRUE)
RefLowered(l) == \E i \in 1..Len(delivered) : delivered[i] = SetIsLoading(l, FALSE)

RefRequestsOf(l) == SelectSeq(requests, LAMBDA q : q.load = l)

\* the calls of invocation l, as far as it has come
RefOutcomeOnce(l) ==
    LET cs == CallsOf(l)
    IN  IF loads[l].pc = "rejected"
        THEN /\ ~RefRaised(l) /\ ~RefLowered(l)
             /\ RefRequestsOf(l) = <<>>
             /\ RefCount(cs, LAMBDA c : c.fn = "onDataLoad") = 0
        ELSE /\ cs[1] = SetIsLoading(l, TRUE)
             /\ RefCount(cs, LAMBDA c : c = SetIsLoading(l, TRUE)) = 1
             /\ RefCount(cs, LAMBDA c : c.fn = "onDataLoad" /\ c.deals = <<>>) = 0
             /\ IF loads[l].pc = "done"
                THEN /\ cs[Len(cs)] = SetIsLoading(l, FALSE)
                     /\ RefCount(cs, LAMBDA c : c = SetIsLoading(l, FALSE)) = 1
                     /\ RefCount(cs, RefOutcome) = 1
                ELSE /\ ~RefLowered(l)
                     /\ RefCount(cs, RefOutcome) = 0

C16_OneOutcome == \A l \in 1..Len(loads) : RefOutcomeOnce(l)

\* C16: every invocation of handleLoad that sets the loading flag to true
\* eventually sets it back to false, every round trip answering or failing;
\* between the two it delivers exactly one final outcome, onDataLoad with
\* records or onError with a message, never both, on every path. An invocation
\* rejected for a blank key or a blank sheet input never sets the flag and
\* issues no request.
\* (delivered only grows, so "from some point on every invocation that raised
\* the flag has lowered it" gives RefRaised(l) ~> RefLowered(l) for each l)
C16_LoadingEndsWithOneOutcome ==
    /\ []C16_OneOutcome
    /\ <>[](\A l \in 1..Len(loads) : RefRaised(l) => RefLowered(l))

\* C16 witness: an invocation handed records over and lowered the flag after
\* an earlier one was rejected for a blank key
C16_Witness ==
    \E l, r \in 1..Len(loads) :
        /\ loads[r].pc = "rejected"
        /\ CallsOf(r) = <<OnError(r, MsgEnterKey)>>
        /\ loads[l].pc = "done"
        /\ Len(CallsOf(l)) = 4
        /\ CallsOf(l)[1] = SetIsLoading(l, TRUE)
        /\ CallsOf(l)[2] = OnError(l, NoMessage)
        /\ CallsOf(l)[3].fn = "onDataLoad" /\ CallsOf(l)[3].deals # <<>>
        /\ CallsOf(l)[4] = SetIsLoading(l, FALSE)

====
